---- MODULE Spec2Model ----
(***************************************************************************)
(* odds-optimizer-service: the Pricing Engine (pkg/optimizer), the Cache   *)
(* Store (internal/cache), the Ingestion Loop (internal/messaging) and the *)
(* Read Orchestrator (internal/service), as one state machine.             *)
(*                                                                         *)
(* Numbers.  A decimal.Decimal is an integer count of 1/Unit.  Add, Sub    *)
(* and Mul are exact, as in the library; Div rounds the quotient half away *)
(* from zero to DivisionPrecision places, that is to a multiple of Grid.   *)
(* Sizes (BackSize, LaySize) are whole currency units.  A float64 is an    *)
(* integer count of 1/FUnit.  Time is counted in ticks of TickMinutes.     *)
(***************************************************************************)
EXTENDS Integers, Sequences, FiniteSets

VARIABLES
    params,      \* Optimizer.params, fixed at construction
    now,         \* wall clock, in ticks
    call,        \* the call made to the Pricing Engine: [op, arg]; with
                 \* concurrent callers, the frame of each caller's call
    ret,         \* what that call returned; with concurrent callers, what
                 \* each caller's call returned
    cache,       \* the Redis keyspace: key -> [data, exp], or Nil when absent
    stream,      \* the messages delivered so far: offset o is stream[o + 1]
    committed,   \* the consumer group's committed offset
    pc,          \* where KafkaConsumer.Start is
    msg,         \* the offset of the message Start holds, -1 when none
    cancelled,   \* whether the process context is cancelled
    readerClosed,\* whether kafka.Reader.Close has been called
    calls,       \* number of Read Orchestrator calls made so far
    minted,      \* number of uuids minted so far
    got,         \* the last Read Orchestrator call and its result
    hist         \* history: what has been written, put and committed

priceVars == <<params, now, call, ret>>
sysVars == <<cache, committed, pc, msg, cancelled, readerClosed, calls,
             minted, got, hist>>
vars == <<params, now, call, ret, cache, stream, committed, pc, msg,
          cancelled, readerClosed, calls, minted, got, hist>>

\* the absent value (a nil pointer, no call made yet)
Nil == [nil |-> TRUE]

-----------------------------------------------------------------------------
(* Bounds of the model *)

MaxTime == 3
MaxBatch == 3
TickMinutes == 15
MaxMsgs == 2
MaxCalls == 3
TTL == 2
MaxCorrupt == 1
MaxStoreCalls == 2
MaxFetchErrs == 2
NumCallers == 2

-----------------------------------------------------------------------------
(* decimal.Decimal *)

Unit == 10000
Grid == 100

Abs(x) == IF x < 0 THEN -x ELSE x
Min2(a, b) == IF a < b THEN a ELSE b
Max2(a, b) == IF a > b THEN a ELSE b

\* n / d for d > 0, rounded to the nearest integer, halves away from zero
RoundQuot(n, d) ==
    LET q == Abs(n) \div d
        r == Abs(n) % d
        m == IF 2 * r >= d THEN q + 1 ELSE q
    IN  IF n < 0 THEN -m ELSE m

\* Decimal.Div: a / b for two operands counted in the same unit, b # 0; the
\* quotient has DivisionPrecision places, the last one rounded away from zero
Div(a, b) ==
    LET s == IF (a < 0) # (b < 0) THEN -1 ELSE 1
    IN  s * RoundQuot(Abs(a) * (Unit \div Grid), Abs(b)) * Grid

\* Decimal.Mul, exact: every product the model forms is a whole count of 1/Unit
Mul(a, b) == (a * b) \div Unit

One == Unit

-----------------------------------------------------------------------------
(* float64 *)

FUnit == 1000

FMul(a, b) == RoundQuot(a * b, FUnit)

\* a float64 that is not a number, outside every value the model computes
NaN == 0 - FUnit * FUnit

\* Decimal.InexactFloat64
InexactFloat64(d) == RoundQuot(d * FUnit, Unit)

-----------------------------------------------------------------------------
(* The Pricing Engine *)

LiquidityThreshold == 10000
ConfidenceLiquidityCap == 20000

calculateImpliedProbability(odds) == Div(One, odds)

probabilityToOdds(prob) ==
    IF prob <= 0 \/ prob >= One THEN One ELSE Div(One, prob)

\* the switch of calculateTargetMargin with tennis left to the default branch
SportMultiplierTennisDefault(sport) ==
    CASE sport \in {"football", "soccer"} -> 8000
      [] OTHER -> 12000

SportMultiplier(sport) ==
    CASE sport \in {"football", "soccer"} -> 8000
      [] sport = "tennis" -> 10000
      [] OTHER -> 12000

calculateTargetMarginNoUpperClamp(p, normalized) ==
    LET totalLiquidity == normalized.BackSize + normalized.LaySize
        liquidityFactor == Div(totalLiquidity, LiquidityThreshold)
        marginIncrease == Mul(p.MaxMargin - p.MinMargin, One - liquidityFactor)
        m1 == IF totalLiquidity < LiquidityThreshold
              THEN p.MinMargin + marginIncrease ELSE p.MinMargin
        m2 == Mul(m1, SportMultiplier(normalized.Sport))
    IN  IF m2 < p.MinMargin THEN p.MinMargin ELSE m2

\* calculateTargetMargin with an uplift that grows with the liquidity
calculateTargetMarginUpliftByLiquidity(p, normalized) ==
    LET totalLiquidity == normalized.BackSize + normalized.LaySize
        liquidityFactor == Div(totalLiquidity, LiquidityThreshold)
        marginIncrease == Mul(p.MaxMargin - p.MinMargin, liquidityFactor)
        m1 == IF totalLiquidity < LiquidityThreshold
              THEN p.MinMargin + marginIncrease ELSE p.MinMargin
        m2 == Mul(m1, SportMultiplier(normalized.Sport))
        m3 == IF m2 < p.MinMargin THEN p.MinMargin ELSE m2
    IN  IF m3 > p.MaxMargin THEN p.MaxMargin ELSE m3

calculateTargetMargin(p, normalized) ==
    LET totalLiquidity == normalized.BackSize + normalized.LaySize
        liquidityFactor == Div(totalLiquidity, LiquidityThreshold)
        marginIncrease == Mul(p.MaxMargin - p.MinMargin, One - liquidityFactor)
        m1 == IF totalLiquidity < LiquidityThreshold
              THEN p.MinMargin + marginIncrease ELSE p.MinMargin
        m2 == Mul(m1, SportMultiplier(normalized.Sport))
        m3 == IF m2 < p.MinMargin THEN p.MinMargin ELSE m2
    IN  IF m3 > p.MaxMargin THEN p.MaxMargin ELSE m3

Clamp01(c) == IF c < 0 THEN 0 ELSE IF c > FUnit THEN FUnit ELSE c

\* factor 1: 0.7 + 0.3 * liquidityScore
LiquidityFactor(normalized) ==
    LET totalLiquidity == normalized.BackSize + normalized.LaySize
        liquidityScore ==
            Min2(FUnit, RoundQuot(totalLiquidity * FUnit, ConfidenceLiquidityCap))
    IN  700 + FMul(300, liquidityScore)

\* a spread factor taken from the market's own lay price when there is one
SpreadFactorOfMarket(normalized, spread) ==
    LET marketSpread == IF normalized.LayPrice > One
                        THEN normalized.LayPrice - normalized.BackPrice
                        ELSE spread
        spreadPercent == InexactFloat64(Div(marketSpread, normalized.BackPrice))
        spreadScore == Max2(0, FUnit - spreadPercent * 10)
    IN  800 + FMul(200, spreadScore)

\* factor 2: 0.8 + 0.2 * spreadScore
SpreadFactor(normalized, spread) ==
    LET spreadPercent == InexactFloat64(Div(spread, normalized.BackPrice))
        spreadScore == Max2(0, FUnit - spreadPercent * 10)
    IN  800 + FMul(200, spreadScore)

\* a freshness factor that grows with the age of the observation
FreshnessFactorByAge(normalized, t) ==
    LET ageMinutes == (t - normalized.Timestamp) * TickMinutes
        freshnessScore == Max2(0, RoundQuot(ageMinutes * FUnit, 60))
    IN  900 + FMul(100, freshnessScore)

\* factor 3: 0.9 + 0.1 * freshnessScore
FreshnessFactor(normalized, t) ==
    LET ageMinutes == (t - normalized.Timestamp) * TickMinutes
        freshnessScore == Max2(0, FUnit - RoundQuot(ageMinutes * FUnit, 60))
    IN  900 + FMul(100, freshnessScore)

\* the product of the base confidence and the three factors, before the clamp
RawConfidence(p, normalized, spread, t) ==
    LET c1 == FMul(p.TargetConfidence, LiquidityFactor(normalized))
        c2 == FMul(c1, SpreadFactor(normalized, spread))
    IN  FMul(c2, FreshnessFactor(normalized, t))

calculateConfidenceNoClamp(p, normalized, spread, t) ==
    RawConfidence(p, normalized, spread, t)

calculateConfidence(p, normalized, spread, t) ==
    Clamp01(RawConfidence(p, normalized, spread, t))

\* the validation of Optimize: the back price is rejected when it is <= 1
InvalidBackPriceStrict(normalized) == normalized.BackPrice < One

InvalidBackPrice(normalized) == normalized.BackPrice <= One

\* optimized back and lay prices after the minimum-spread adjustment
EnsureMinSpread(p, optimizedBack, optimizedLay) ==
    LET spread == optimizedBack - optimizedLay
        adjustment == Div(p.MinSpread - spread, 2 * One)
    IN  IF spread < p.MinSpread
        THEN [back |-> optimizedBack + adjustment, lay |-> optimizedLay - adjustment]
        ELSE [back |-> optimizedBack, lay |-> optimizedLay]

\* the record Optimize returns, with the lay price written to both audit fields
OptimizedOddsLayFromBack(normalized, px, margin, confidence, id, t) ==
    [ID |-> id,
     EventID |-> normalized.EventID, EventName |-> normalized.EventName,
     Sport |-> normalized.Sport, Competition |-> normalized.Competition,
     Market |-> normalized.Market, Selection |-> normalized.Selection,
     OptimizedBack |-> px.back, OptimizedLay |-> px.lay,
     OriginalBack |-> normalized.BackPrice, OriginalLay |-> normalized.BackPrice,
     BackSize |-> normalized.BackSize, LaySize |-> normalized.LaySize,
     Margin |-> margin, Confidence |-> confidence,
     Timestamp |-> normalized.Timestamp, OptimizedAt |-> t]

OptimizedOdds(normalized, px, margin, confidence, id, t) ==
    [ID |-> id,
     EventID |-> normalized.EventID, EventName |-> normalized.EventName,
     Sport |-> normalized.Sport, Competition |-> normalized.Competition,
     Market |-> normalized.Market, Selection |-> normalized.Selection,
     OptimizedBack |-> px.back, OptimizedLay |-> px.lay,
     OriginalBack |-> normalized.BackPrice, OriginalLay |-> normalized.LayPrice,
     BackSize |-> normalized.BackSize, LaySize |-> normalized.LaySize,
     Margin |-> margin, Confidence |-> confidence,
     Timestamp |-> normalized.Timestamp, OptimizedAt |-> t]

\* Optimize with a margin that grows with the wall clock
OptimizeMarginByClock(p, normalized, id, t) ==
    IF InvalidBackPrice(normalized)
    THEN [err |-> TRUE, odds |-> Nil]
    ELSE LET impliedProbBack == calculateImpliedProbability(normalized.BackPrice)
             targetMargin == calculateTargetMargin(p, normalized) + t * Grid
             optimizedProbBack == impliedProbBack + Div(targetMargin, 2 * One)
             optimizedProbLay == impliedProbBack - Div(targetMargin, 2 * One)
             optimizedBack == probabilityToOdds(optimizedProbBack)
             optimizedLay == probabilityToOdds(optimizedProbLay)
             spread == optimizedBack - optimizedLay
             px == EnsureMinSpread(p, optimizedBack, optimizedLay)
             confidence == calculateConfidence(p, normalized, spread, t)
         IN  [err |-> FALSE,
              odds |-> OptimizedOdds(normalized, px, targetMargin, confidence, id, t)]

\* Optimize(normalized) with the minted uuid and the wall clock made explicit
Optimize(p, normalized, id, t) ==
    IF InvalidBackPrice(normalized)
    THEN [err |-> TRUE, odds |-> Nil]
    ELSE LET impliedProbBack == calculateImpliedProbability(normalized.BackPrice)
             targetMargin == calculateTargetMargin(p, normalized)
             optimizedProbBack == impliedProbBack + Div(targetMargin, 2 * One)
             optimizedProbLay == impliedProbBack - Div(targetMargin, 2 * One)
             optimizedBack == probabilityToOdds(optimizedProbBack)
             optimizedLay == probabilityToOdds(optimizedProbLay)
             spread == optimizedBack - optimizedLay
             px == EnsureMinSpread(p, optimizedBack, optimizedLay)
             confidence == calculateConfidence(p, normalized, spread, t)
         IN  [err |-> FALSE,
              odds |-> OptimizedOdds(normalized, px, targetMargin, confidence, id, t)]

\* BatchOptimize leaving its loop at the first item Optimize rejects
RECURSIVE BatchOptimizeStopAtError(_, _, _, _)
BatchOptimizeStopAtError(p, normalized, ids, t) ==
    IF normalized = <<>> THEN <<>>
    ELSE LET r == Optimize(p, Head(normalized), Head(ids), t)
         IN  IF r.err THEN <<>>
             ELSE <<r.odds>> \o BatchOptimizeStopAtError(p, Tail(normalized), Tail(ids), t)

\* BatchOptimize: the results of the items Optimize accepts, in input order;
\* ids[i] is the uuid minted when item i is priced.  It returns no error.
RECURSIVE BatchOptimize(_, _, _, _)
BatchOptimize(p, normalized, ids, t) ==
    IF normalized = <<>> THEN <<>>
    ELSE LET r == Optimize(p, Head(normalized), Head(ids), t)
             rest == BatchOptimize(p, Tail(normalized), Tail(ids), t)
         IN  IF r.err THEN rest ELSE <<r.odds>> \o rest

-----------------------------------------------------------------------------
(* Inputs of the Pricing Engine *)

UUIDs == {"u1", "u2"}

Sports == {"football", "soccer", "tennis", "darts"}

\* back prices 0, 0.5, 1, 1.01, 2.5 and 50
BackPrices == {0, 5000, 10000, 10100, 25000, 500000}

\* lay prices: absent (zero), below 1, and 2.6
LayPrices == {0, 9000, 26000}

\* <<BackSize, LaySize>>: no liquidity, below and above the threshold, negative
SizePairs == {<<0, 0>>, <<2500, 2500>>, <<10000, 8000>>, <<15000, 10000>>,
              <<-40000, -40000>>}

\* observation times: far in the past, recent, and after MaxTime (the future)
Timestamps == {-10, 0, MaxTime + 3}

\* margins are multiples of 0.01 and liquidity of 500, so that every product
\* formed by calculateTargetMargin is a whole count of 1/Unit
MarginPairs == {<<200, 1000>>, <<100, 300>>}

\* 0.05, 0.051, which has one more place than Div keeps, and 3, wider than
\* twice the shortest prices
MinSpreads == {500, 510, 30000}

TargetConfidences == {850, 1200}

ParamSet ==
    {[MinMargin |-> mp[1], MaxMargin |-> mp[2], MinSpread |-> ms,
      TargetConfidence |-> tc] :
        mp \in MarginPairs, ms \in MinSpreads, tc \in TargetConfidences}

StrE1 == <<"e", "1">>
StrMkt == <<"m", "w">>
StrSelA == <<"A">>
StrSelB == <<"B">>

NormalizedOddsOf(event, market, selection, sport, back, lay, sizes, ts) ==
    [EventID |-> event, EventName |-> "A vs B", Sport |-> sport,
     Competition |-> "league", Market |-> market, Selection |-> selection,
     BackPrice |-> back, LayPrice |-> lay,
     BackSize |-> sizes[1], LaySize |-> sizes[2], Timestamp |-> ts]

PriceInputs ==
    {NormalizedOddsOf(StrE1, StrMkt, StrSelA, sp, b, l, sz, ts) :
        sp \in Sports, b \in BackPrices, l \in LayPrices,
        sz \in SizePairs, ts \in Timestamps}

\* the items batches are made of: two valid ones and one with back price 0.5
BatchItems ==
    {NormalizedOddsOf(StrE1, StrMkt, StrSelA, "football", 25000, 26000, <<10000, 8000>>, 0),
     NormalizedOddsOf(StrE1, StrMkt, StrSelB, "tennis", 5000, 26000, <<2500, 2500>>, 0),
     NormalizedOddsOf(StrE1, StrMkt, StrSelB, "darts", 500000, 0, <<0, 0>>, 0)}

SeqsUpTo(S, n) == UNION {[1..k -> S] : k \in 0..n}

-----------------------------------------------------------------------------
(* Inputs of the running service *)

DefaultParams ==
    [MinMargin |-> 200, MaxMargin |-> 1000, MinSpread |-> 500,
     TargetConfidence |-> 850]

StrMktColon == <<"m", "w", ":", "A">>
StrSelColon == <<"A", ":", "x">>
StrSelX == <<"x">>

\* the quotes that arrive on the stream or are submitted: two prices for
\* selection A, an invalid one for B, and two whose identifiers hold a ':'
SysItems ==
    {NormalizedOddsOf(StrE1, StrMkt, StrSelA, "football", 25000, 26000, <<10000, 8000>>, 0),
     NormalizedOddsOf(StrE1, StrMkt, StrSelA, "football", 500000, 0, <<2500, 2500>>, 1),
     NormalizedOddsOf(StrE1, StrMkt, StrSelB, "tennis", 5000, 26000, <<2500, 2500>>, 0),
     NormalizedOddsOf(StrE1, StrMkt, StrSelColon, "tennis", 25000, 26000, <<10000, 8000>>, 0),
     NormalizedOddsOf(StrE1, StrMktColon, StrSelX, "darts", 25000, 26000, <<10000, 8000>>, 0)}

Triple(q) == <<q.EventID, q.Market, q.Selection>>

\* the event ids asked for: the event of the quotes, and an id that holds
\* a ':' and continues into a market name
StrE1Mkt == StrE1 \o <<":">> \o StrMkt
SysEvents == {StrE1, StrE1Mkt}

SysTriples == {Triple(q) : q \in SysItems}

\* models.KafkaNormalizedOddsMessage as it travels: a JSON body, or bytes that
\* are no JSON
EncodeMsg(oddsData) == [json |-> TRUE, odds_data |-> oddsData, batch_id |-> "b"]
GarbageBytes == [json |-> FALSE]

\* the batches that arrive: empty, an invalid item alone, a valid and an
\* invalid item, a second price for selection A, and the two items whose
\* identifiers hold a ':'
SysBatches ==
    {<<>>,
     <<NormalizedOddsOf(StrE1, StrMkt, StrSelB, "tennis", 5000, 26000, <<2500, 2500>>, 0)>>,
     <<NormalizedOddsOf(StrE1, StrMkt, StrSelA, "football", 25000, 26000, <<10000, 8000>>, 0),
       NormalizedOddsOf(StrE1, StrMkt, StrSelB, "tennis", 5000, 26000, <<2500, 2500>>, 0)>>,
     <<NormalizedOddsOf(StrE1, StrMkt, StrSelA, "football", 500000, 0, <<2500, 2500>>, 1)>>,
     <<NormalizedOddsOf(StrE1, StrMkt, StrSelColon, "tennis", 25000, 26000, <<10000, 8000>>, 0),
       NormalizedOddsOf(StrE1, StrMktColon, StrSelX, "darts", 25000, 26000, <<10000, 8000>>, 0)>>}

MsgBodies == {GarbageBytes} \cup {EncodeMsg(b) : b \in SysBatches}

\* json.Unmarshal(msg.Value, &kafkaMsg)
UnmarshalMsg(value) ==
    IF value.json
    THEN [err |-> FALSE, OddsData |-> value.odds_data, BatchID |-> value.batch_id]
    ELSE [err |-> TRUE, OddsData |-> <<>>, BatchID |-> ""]

-----------------------------------------------------------------------------
(* The Cache Store *)

\* fmt.Sprintf("odds:%s:%s:%s", eventID, market, selection)
Key(eventID, market, selection) ==
    <<"odds", ":">> \o eventID \o <<":">> \o market \o <<":">> \o selection

AllKeys == {Key(t[1], t[2], t[3]) : t \in SysTriples}

\* Decimal.MarshalJSON / UnmarshalJSON: the decimal as a string of digits,
\* sign, integer part and fraction; unit is what one count of d is worth
DecString(d, unit) ==
    [neg |-> d < 0, int |-> Abs(d) \div unit, frac |-> Abs(d) % unit]
ParseDec(str, unit) ==
    (IF str.neg THEN -1 ELSE 1) * (str.int * unit + str.frac)

\* json.Marshal(odds) succeeds unless a float64 field is not a number
Serializable(o) == o.Confidence # NaN

\* json.Marshal(odds), by the json tags of models.OptimizedOdds
Marshal(o) ==
    [id |-> o.ID, event_id |-> o.EventID, event_name |-> o.EventName,
     sport |-> o.Sport, competition |-> o.Competition, market |-> o.Market,
     selection |-> o.Selection,
     optimized_back |-> DecString(o.OptimizedBack, Unit),
     optimized_lay |-> DecString(o.OptimizedLay, Unit),
     original_back |-> DecString(o.OriginalBack, Unit),
     original_lay |-> DecString(o.OriginalLay, Unit),
     back_size |-> DecString(o.BackSize, 1),
     lay_size |-> DecString(o.LaySize, 1),
     margin |-> DecString(o.Margin, Unit),
     confidence |-> o.Confidence,
     timestamp |-> o.Timestamp, optimized_at |-> o.OptimizedAt]

\* json.Unmarshal(data, &odds)
Unmarshal(data) ==
    IF "event_id" \in DOMAIN data
    THEN [err |-> FALSE,
          odds |-> [ID |-> data.id, EventID |-> data.event_id,
                    EventName |-> data.event_name, Sport |-> data.sport,
                    Competition |-> data.competition, Market |-> data.market,
                    Selection |-> data.selection,
                    OptimizedBack |-> ParseDec(data.optimized_back, Unit),
                    OptimizedLay |-> ParseDec(data.optimized_lay, Unit),
                    OriginalBack |-> ParseDec(data.original_back, Unit),
                    OriginalLay |-> ParseDec(data.original_lay, Unit),
                    BackSize |-> ParseDec(data.back_size, 1),
                    LaySize |-> ParseDec(data.lay_size, 1),
                    Margin |-> ParseDec(data.margin, Unit),
                    Confidence |-> data.confidence,
                    Timestamp |-> data.timestamp,
                    OptimizedAt |-> data.optimized_at]]
    ELSE [err |-> TRUE, odds |-> Nil]

\* Redis SET key data EX ttl, keeping the expiry the key already has
StoreSetKeepTTL(c, key, data, t) ==
    [c EXCEPT ![key] = [data |-> data,
                        exp |-> IF c[key] # Nil THEN c[key].exp ELSE t + TTL]]

\* Redis SET key data EX ttl NX: a key that exists is left as it is
StoreSetIfAbsent(c, key, data, t) ==
    IF c[key] # Nil THEN c
    ELSE [c EXCEPT ![key] = [data |-> data, exp |-> t + TTL]]

\* Redis SET key data EX ttl at time t: client.Set(ctx, key, data, c.ttl)
StoreSet(c, key, data, t) ==
    [c EXCEPT ![key] = [data |-> data, exp |-> t + TTL]]

\* Redis GET key at time t: the payload, or Nil (redis.Nil) when the key is
\* absent or expired
StoreGet(c, key, t) ==
    IF c[key] # Nil /\ t < c[key].exp THEN c[key].data ELSE Nil

\* Redis drops the keys whose time-to-live has elapsed at time t
Expire(c, t) ==
    [k \in DOMAIN c |-> IF c[k] # Nil /\ c[k].exp <= t THEN Nil ELSE c[k]]

\* RedisCache.Set(ctx, odds); up says whether the round trip succeeds
Set(c, odds, up, t) ==
    IF ~Serializable(odds) THEN [err |-> TRUE, cache |-> c]
    ELSE IF up
    THEN [err |-> FALSE,
          cache |-> StoreSet(c, Key(odds.EventID, odds.Market, odds.Selection),
                             Marshal(odds), t)]
    ELSE [err |-> TRUE, cache |-> c]

\* RedisCache.Get(ctx, eventID, market, selection)
Get(c, eventID, market, selection, up, t) ==
    LET data == StoreGet(c, Key(eventID, market, selection), t)
    IN  IF ~up THEN [err |-> "redis", odds |-> Nil]
        ELSE IF data = Nil THEN [err |-> "notfound", odds |-> Nil]
        ELSE IF Unmarshal(data).err THEN [err |-> "unmarshal", odds |-> Nil]
        ELSE [err |-> "none", odds |-> Unmarshal(data).odds]

\* the SCAN pattern "odds:%s:*" of GetByEvent matches key
IsPrefix(p, s) == Len(p) <= Len(s) /\ SubSeq(s, 1, Len(p)) = p
ScanMatch(eventID, key) == IsPrefix(<<"odds", ":">> \o eventID \o <<":">>, key)

\* the keys SCAN returns for the event: those that match and are live
Scanned(c, eventID, t) ==
    {k \in DOMAIN c : ScanMatch(eventID, k) /\ StoreGet(c, k, t) # Nil}

\* GetByEvent giving up with an error at a payload that does not decode
GetByEventFailOnCorrupt(c, eventID, scanUp, failing, t) ==
    LET keys == Scanned(c, eventID, t)
        read == {k \in keys \ failing : ~Unmarshal(StoreGet(c, k, t)).err}
    IN  IF ~scanUp \/ read # keys \ failing THEN [err |-> TRUE, odds |-> {}]
        ELSE [err |-> FALSE,
              odds |-> {Unmarshal(StoreGet(c, k, t)).odds : k \in read}]

\* RedisCache.GetByEvent(ctx, eventID): SCAN, then GET and Unmarshal of each
\* key found; a key whose GET fails (it is in failing, or it is gone) or
\* whose payload does not decode is skipped. The order of SCAN is not
\* defined, so the result is the set of the quotes read
GetByEvent(c, eventID, scanUp, failing, t) ==
    LET keys == Scanned(c, eventID, t)
        read == {k \in keys \ failing : ~Unmarshal(StoreGet(c, k, t)).err}
    IN  IF ~scanUp THEN [err |-> TRUE, odds |-> {}]
        ELSE [err |-> FALSE,
              odds |-> {Unmarshal(StoreGet(c, k, t)).odds : k \in read}]

\* the pipeline of SetBatch: the SET commands of oddsList in order; the
\* commands whose index is in failing are refused by the store
RECURSIVE Pipeline(_, _, _, _, _)
Pipeline(c, oddsList, i, failing, t) ==
    IF i > Len(oddsList) THEN c
    ELSE LET o == oddsList[i]
             c1 == IF i \in failing THEN c
                   ELSE StoreSet(c, Key(o.EventID, o.Market, o.Selection),
                                 Marshal(o), t)
         IN  Pipeline(c1, oddsList, i + 1, failing, t)

\* SetBatch queueing a SET command for every item
QueuedAll(oddsList) == oddsList

\* the SET commands SetBatch queues: an item json.Marshal rejects is logged
\* and skipped
Queued(oddsList) == SelectSeq(oddsList, Serializable)

\* SetBatch refusing an empty list
SetBatchRejectEmpty(c, oddsList, failing, t) ==
    IF Len(oddsList) = 0 THEN [err |-> TRUE, cache |-> c]
    ELSE [err |-> failing # {},
          cache |-> Pipeline(c, Queued(oddsList), 1, failing, t)]

\* RedisCache.SetBatch(ctx, oddsList): an empty list returns nil at once;
\* otherwise pipe.Exec sends the queued commands (none queued: no round
\* trip, nil) and reports an error when any command failed; failing holds
\* the indices, among the queued commands, of those the store refused
SetBatch(c, oddsList, failing, t) ==
    IF Len(oddsList) = 0 THEN [err |-> FALSE, cache |-> c]
    ELSE [err |-> failing # {},
          cache |-> Pipeline(c, Queued(oddsList), 1, failing, t)]

-----------------------------------------------------------------------------
(* History kept for the properties: which offsets were decoded, cached,    *)
(* failed and acknowledged; the last quote written for each triple, when    *)
(* each key was last written, which triples were written more than once,   *)
(* whether any write has failed, which keys a foreign writer has filled    *)
(* with bytes that do not decode, and how many pulls in a row have failed  *)
(* (counted up to MaxFetchErrs).                                           *)

HistInit ==
    [decoded |-> {}, putOk |-> {}, failed |-> {}, commitIssued |-> {},
     lastWritten |-> [tr \in SysTriples |-> Nil],
     lastWriteAt |-> [k \in AllKeys |-> -1],
     overwritten |-> {},
     writeFailed |-> FALSE,
     corrupt |-> {},
     fetchErrs |-> 0]

\* the history after the quotes of oddsList, except those in failing, were
\* written at time t
RECURSIVE NoteWrites(_, _, _, _, _)
NoteWrites(h, oddsList, i, failing, t) ==
    IF i > Len(oddsList) THEN h
    ELSE LET o == oddsList[i]
             h1 == IF i \in failing THEN [h EXCEPT !.writeFailed = TRUE]
                   ELSE [h EXCEPT
                           !.lastWritten[Triple(o)] = o,
                           !.lastWriteAt[Key(o.EventID, o.Market, o.Selection)] = t,
                           !.overwritten =
                               IF h.lastWritten[Triple(o)] # Nil
                               THEN @ \cup {Triple(o)} ELSE @]
         IN  NoteWrites(h1, oddsList, i + 1, failing, t)

-----------------------------------------------------------------------------
(* The running service: Ingestion Loop, Read Orchestrator, clock, shutdown *)

NoCall == [op |-> "none"]

SysIdle ==
    /\ cache = [k \in AllKeys |-> Nil]
    /\ committed = 0
    /\ pc = "select"
    /\ msg = -1
    /\ cancelled = FALSE
    /\ readerClosed = FALSE
    /\ calls = 0
    /\ minted = 0
    /\ got = NoCall
    /\ hist = HistInit

Init ==
    /\ params = DefaultParams
    /\ now = 0
    /\ call = Nil
    /\ ret = Nil
    /\ stream = <<>>
    /\ SysIdle

\* the wall clock advances; Redis expires what is due
Tick ==
    /\ now < MaxTime
    /\ now' = now + 1
    /\ cache' = Expire(cache, now + 1)
    /\ UNCHANGED <<params, call, ret, stream, committed, pc, msg,
                   cancelled, readerClosed, calls, minted, got, hist>>

\* main: SIGINT/SIGTERM arrives and cancel() is called
Cancel ==
    /\ ~cancelled
    /\ cancelled' = TRUE
    /\ UNCHANGED <<params, now, call, ret, cache, stream, committed,
                   pc, msg, readerClosed, calls, minted, got, hist>>

\* kafka.Reader.Close returns nil
ReaderClose == [err |-> FALSE]

\* where Start is once it has returned: "stopped" after a nil error,
\* "failed" after any other
StartReturns(err) == IF err THEN "failed" ELSE "stopped"

\* Start with a select that never takes the ctx.Done() branch
LoopSelectNoDone ==
    /\ pc = "select"
    /\ pc' = "fetch"
    /\ UNCHANGED <<params, now, call, ret, cache, stream, committed,
                   msg, cancelled, readerClosed, calls, minted, got, hist>>

\* Start, the select: ctx.Done() closes the reader and returns what Close
\* returns; otherwise the default branch goes on to FetchMessage
LoopSelect ==
    /\ pc = "select"
    /\ IF cancelled
       THEN pc' = StartReturns(ReaderClose.err) /\ readerClosed' = TRUE
       ELSE pc' = "fetch" /\ UNCHANGED readerClosed
    /\ UNCHANGED <<params, now, call, ret, cache, stream, committed,
                   msg, cancelled, calls, minted, got, hist>>

\* FetchMessage returns the next message of the partition, whatever the
\* producer put there
FetchOk ==
    /\ pc = "fetch"
    /\ Len(stream) < MaxMsgs
    /\ \E body \in MsgBodies : stream' = Append(stream, body)
    /\ msg' = Len(stream)
    /\ pc' = "process"
    /\ hist' = [hist EXCEPT !.fetchErrs = 0]
    /\ UNCHANGED <<params, now, call, ret, cache, committed, cancelled, readerClosed,
                   calls, minted, got>>

\* FetchMessage returns context.Canceled: Start returns nil
FetchCancelled ==
    /\ pc = "fetch"
    /\ cancelled
    /\ pc' = StartReturns(FALSE)
    /\ UNCHANGED <<params, now, call, ret, cache, stream, committed,
                   msg, cancelled, readerClosed, calls, minted, got, hist>>

\* FetchMessage returns another error and Start returns it
FetchErrorReturned ==
    /\ pc = "fetch"
    /\ pc' = StartReturns(TRUE)
    /\ hist' = [hist EXCEPT !.fetchErrs = Min2(@ + 1, MaxFetchErrs)]
    /\ UNCHANGED <<params, now, call, ret, cache, stream, committed,
                   msg, cancelled, readerClosed, calls, minted, got>>

\* FetchMessage returns another error: logged, next iteration
FetchError ==
    /\ pc = "fetch"
    /\ pc' = "select"
    /\ hist' = [hist EXCEPT !.fetchErrs = Min2(@ + 1, MaxFetchErrs)]
    /\ UNCHANGED <<params, now, call, ret, cache, stream, committed,
                   msg, cancelled, readerClosed, calls, minted, got>>

\* where Start goes after processMessage returned, always committing
AfterProcessAlwaysCommit(failed) == "commit"

\* where Start goes after processMessage returned: on an error it logs and
\* continues without committing
AfterProcess(failed) == IF failed THEN "select" ELSE "commit"

\* processMessage on an undecodable body
ProcessUndecodable ==
    /\ pc = "process"
    /\ UnmarshalMsg(stream[msg + 1]).err
    /\ hist' = [hist EXCEPT !.failed = @ \cup {msg}]
    /\ pc' = AfterProcess(TRUE)
    /\ UNCHANGED <<params, now, call, ret, cache, stream, committed,
                   msg, cancelled, readerClosed, calls, minted, got>>

\* processMessage on a decoded body: BatchOptimize, then SetBatch under the
\* process context; a cancelled context fails every command of the pipeline
ProcessBatch ==
    /\ pc = "process"
    /\ ~UnmarshalMsg(stream[msg + 1]).err
    /\ LET normalizedOdds == UnmarshalMsg(stream[msg + 1]).OddsData
           ids == [i \in 1..Len(normalizedOdds) |-> minted + i]
           optimizedOdds == BatchOptimize(params, normalizedOdds, ids, now)
           n == Len(optimizedOdds)
       IN  /\ minted' = minted + Len(normalizedOdds)
           /\ \E failing \in SUBSET (1..n) :
                /\ cancelled => failing = 1..n
                /\ LET r == SetBatch(cache, optimizedOdds, failing, now)
                       h == NoteWrites(hist, optimizedOdds, 1, failing, now)
                   IN  /\ cache' = r.cache
                       /\ hist' = [h EXCEPT
                              !.decoded = @ \cup {msg},
                              !.putOk = IF r.err THEN @ ELSE @ \cup {msg},
                              !.failed = IF r.err THEN @ \cup {msg} ELSE @]
                       /\ pc' = AfterProcess(r.err)
    /\ UNCHANGED <<params, now, call, ret, stream, committed, msg,
                   cancelled, readerClosed, calls, got>>

\* Start returning the error of CommitMessages
CommitErrorReturned ==
    /\ pc = "commit"
    /\ \E ok \in BOOLEAN :
           /\ committed' = IF ok THEN Max2(committed, msg + 1) ELSE committed
           /\ pc' = IF ok THEN "select" ELSE StartReturns(TRUE)
    /\ hist' = [hist EXCEPT !.commitIssued = @ \cup {msg}]
    /\ UNCHANGED <<params, now, call, ret, cache, stream, msg, cancelled,
                   readerClosed, calls, minted, got>>

\* CommitMessages(ctx, msg): on success the group offset moves past msg; an
\* error is logged; either way the next iteration follows
Commit ==
    /\ pc = "commit"
    /\ \E ok \in BOOLEAN :
           committed' = IF ok THEN Max2(committed, msg + 1) ELSE committed
    /\ hist' = [hist EXCEPT !.commitIssued = @ \cup {msg}]
    /\ pc' = "select"
    /\ UNCHANGED <<params, now, call, ret, cache, stream, msg, cancelled,
                   readerClosed, calls, minted, got>>

\* GetOptimizedOdds handing the error of cache.Get on to its caller
GetOptimizedOddsPassingError(c, eventID, market, selection, up, t) ==
    LET r == Get(c, eventID, market, selection, up, t)
    IN  [err |-> r.err, odds |-> r.odds, cacheErr |-> r.err]

\* OptimizerService.GetOptimizedOdds: a hit returns the cached quote; any
\* error of cache.Get is logged and the one "odds not found" error returned
GetOptimizedOdds(c, eventID, market, selection, up, t) ==
    LET r == Get(c, eventID, market, selection, up, t)
    IN  IF r.err = "none" /\ r.odds # Nil
        THEN [err |-> "none", odds |-> r.odds, cacheErr |-> r.err]
        ELSE [err |-> "notfound", odds |-> Nil, cacheErr |-> r.err]

\* a request for one quote that, on a hit, restarts the entry's time-to-live
LookupTouching ==
    /\ calls < MaxCalls
    /\ \E tr \in SysTriples, up \in BOOLEAN :
         LET r == GetOptimizedOdds(cache, tr[1], tr[2], tr[3], up, now)
             k == Key(tr[1], tr[2], tr[3])
         IN  /\ got' = [op |-> "lookup", triple |-> tr, cacheErr |-> r.cacheErr,
                        odds |-> r.odds, err |-> (r.err # "none"),
                        errKind |-> r.err]
             /\ cache' = IF r.err = "none"
                         THEN [cache EXCEPT ![k].exp = now + TTL]
                         ELSE cache
    /\ calls' = calls + 1
    /\ UNCHANGED <<params, now, call, ret, stream, committed,
                   pc, msg, cancelled, readerClosed, minted, hist>>

\* a request for one quote: GetOptimizedOdds is called
Lookup ==
    /\ calls < MaxCalls
    /\ \E tr \in SysTriples, up \in BOOLEAN :
         LET r == GetOptimizedOdds(cache, tr[1], tr[2], tr[3], up, now)
         IN  got' = [op |-> "lookup", triple |-> tr, cacheErr |-> r.cacheErr,
                     odds |-> r.odds, err |-> (r.err # "none"),
                     errKind |-> r.err]
    /\ calls' = calls + 1
    /\ UNCHANGED <<params, now, call, ret, cache, stream, committed,
                   pc, msg, cancelled, readerClosed, minted, hist>>

\* OptimizerService.GetOptimizedOddsByEvent: the quotes cache.GetByEvent
\* returns, or its error
LookupByEvent ==
    /\ calls < MaxCalls
    /\ \E eventID \in SysEvents, scanUp \in BOOLEAN :
       \E failing \in SUBSET Scanned(cache, eventID, now) :
         LET r == GetByEvent(cache, eventID, scanUp, failing, now)
         IN  got' = [op |-> "lookupByEvent", event |-> eventID,
                     storeFailed |-> (~scanUp \/ failing # {}),
                     odds |-> r.odds, err |-> r.err]
    /\ calls' = calls + 1
    /\ UNCHANGED <<params, now, call, ret, cache, stream, committed,
                   pc, msg, cancelled, readerClosed, minted, hist>>

\* OptimizeOdds failing the request when cache.Set fails
SubmitFailingOnCacheError ==
    /\ calls < MaxCalls
    /\ \E q \in SysItems, up \in BOOLEAN :
         LET o == Optimize(params, q, minted + 1, now)
             w == Set(cache, o.odds, up, now)
         IN  IF o.err
             THEN /\ got' = [op |-> "submit", arg |-> q, odds |-> Nil,
                             cacheErr |-> FALSE, err |-> TRUE]
                  /\ UNCHANGED <<cache, hist, minted>>
             ELSE /\ got' = [op |-> "submit", arg |-> q,
                             odds |-> IF w.err THEN Nil ELSE o.odds,
                             cacheErr |-> w.err, err |-> w.err]
                  /\ minted' = minted + 1
                  /\ cache' = w.cache
                  /\ hist' = NoteWrites(hist, <<o.odds>>, 1,
                                        IF w.err THEN {1} ELSE {}, now)
    /\ calls' = calls + 1
    /\ UNCHANGED <<params, now, call, ret, stream, committed, pc,
                   msg, cancelled, readerClosed>>

\* OptimizerService.OptimizeOdds: Optimize, then cache.Set whose error is
\* only logged
Submit ==
    /\ calls < MaxCalls
    /\ \E q \in SysItems, up \in BOOLEAN :
         LET o == Optimize(params, q, minted + 1, now)
             w == Set(cache, o.odds, up, now)
         IN  IF o.err
             THEN /\ got' = [op |-> "submit", arg |-> q, odds |-> Nil,
                             cacheErr |-> FALSE, err |-> TRUE]
                  /\ UNCHANGED <<cache, hist, minted>>
             ELSE /\ got' = [op |-> "submit", arg |-> q, odds |-> o.odds,
                             cacheErr |-> w.err, err |-> FALSE]
                  /\ minted' = minted + 1
                  /\ cache' = w.cache
                  /\ hist' = NoteWrites(hist, <<o.odds>>, 1,
                                        IF w.err THEN {1} ELSE {}, now)
    /\ calls' = calls + 1
    /\ UNCHANGED <<params, now, call, ret, stream, committed, pc,
                   msg, cancelled, readerClosed>>

\* OptimizerService.OptimizeBatch: nothing to do for an empty list; otherwise
\* BatchOptimize, then cache.SetBatch whose error is only logged
SubmitBatch ==
    /\ calls < MaxCalls
    /\ \E b \in SysBatches :
         LET ids == [i \in 1..Len(b) |-> minted + i]
             optimized == BatchOptimize(params, b, ids, now)
         IN  IF Len(b) = 0
             THEN /\ got' = [op |-> "submitBatch", arg |-> b, odds |-> Nil,
                             err |-> FALSE]
                  /\ UNCHANGED <<cache, hist, minted>>
             ELSE \E failing \in SUBSET (1..Len(optimized)) :
                    /\ got' = [op |-> "submitBatch", arg |-> b,
                               odds |-> optimized, err |-> FALSE]
                    /\ minted' = minted + Len(b)
                    /\ cache' = SetBatch(cache, optimized, failing, now).cache
                    /\ hist' = NoteWrites(hist, optimized, 1, failing, now)
    /\ calls' = calls + 1
    /\ UNCHANGED <<params, now, call, ret, stream, committed, pc,
                   msg, cancelled, readerClosed>>

\* The Ingestion Loop with the cache it writes, the clock and the shutdown
Next ==
    \/ Tick
    \/ Cancel
    \/ LoopSelect
    \/ FetchOk
    \/ FetchCancelled
    \/ FetchError
    \/ ProcessUndecodable
    \/ ProcessBatch
    \/ Commit

Spec == Init /\ [][Next]_vars

\* The Ingestion Loop and the shutdown alone; nothing in Start reads the
\* clock
LoopNext ==
    \/ Cancel
    \/ LoopSelect
    \/ FetchOk
    \/ FetchCancelled
    \/ FetchError
    \/ ProcessUndecodable
    \/ ProcessBatch
    \/ Commit

\* processMessage returns: Start leaves the call for the commit or for the
\* next iteration, whatever the message held
ProcessReturns ==
    /\ pc = "process"
    /\ pc' \in {AfterProcess(TRUE), AfterProcess(FALSE)}

\* The goroutine of Start keeps running: the select is taken, processMessage
\* and CommitMessages return, and a FetchMessage whose context is cancelled
\* returns
LiveSpec ==
    /\ Init
    /\ [][LoopNext]_vars
    /\ WF_vars(LoopSelect)
    /\ WF_vars(FetchCancelled)
    /\ WF_pc(ProcessReturns)
    /\ WF_vars(Commit)

\* FetchMessage on a stream that has nothing more to deliver and will not be
\* given more: it returns its error
FetchAtEnd == FetchError /\ Len(stream) = MaxMsgs

\* LiveSpec with the stream closed behind its last message: a pull at the
\* end of the stream returns rather than blocks
DrainSpec ==
    /\ Init
    /\ [][LoopNext]_vars
    /\ WF_vars(LoopSelect)
    /\ WF_vars(FetchCancelled)
    /\ WF_pc(ProcessReturns)
    /\ WF_vars(Commit)
    /\ WF_vars(FetchAtEnd)

\* The Read Orchestrator over the Cache Store, with the clock
ApiNext ==
    \/ Tick
    \/ Lookup
    \/ LookupByEvent
    \/ Submit
    \/ SubmitBatch

ApiSpec == Init /\ [][ApiNext]_vars

-----------------------------------------------------------------------------
(* The Cache Store called on its own, beside a foreign writer to the same  *)
(* Redis keyspace; ctxDone says the context passed in is already cancelled, *)
(* which fails every round trip at once.                                   *)

\* the quotes handed to the store: selection A, selection B, and selection
\* B with a confidence that is not a number
QuoteA ==
    Optimize(DefaultParams,
             NormalizedOddsOf(StrE1, StrMkt, StrSelA, "football", 25000, 26000,
                              <<10000, 8000>>, 0), 1, 0).odds
QuoteB ==
    Optimize(DefaultParams,
             NormalizedOddsOf(StrE1, StrMkt, StrSelB, "tennis", 25000, 26000,
                              <<2500, 2500>>, 0), 2, 0).odds
QuoteBNaN == [QuoteB EXCEPT !.Confidence = NaN]

StoreQuotes == {QuoteA, QuoteB, QuoteBNaN}

StoreBatches ==
    {<<>>, <<QuoteA, QuoteB>>, <<QuoteA, QuoteBNaN>>, <<QuoteBNaN>>}

\* an expiry no clock value reaches: the key has no time-to-live
Forever == MaxTime + 1

\* a foreign writer SETs bytes that are no JSON under a key, without expiry
Corrupt ==
    /\ Cardinality(hist.corrupt) < MaxCorrupt
    /\ \E k \in AllKeys :
         /\ cache' = [cache EXCEPT ![k] = [data |-> GarbageBytes, exp |-> Forever]]
         /\ hist' = [hist EXCEPT !.corrupt = @ \cup {k}]
    /\ UNCHANGED <<params, now, call, ret, stream, committed, pc, msg,
                   cancelled, readerClosed, calls, minted, got>>

\* RedisCache.Set called directly
CacheSet ==
    /\ calls < MaxStoreCalls
    /\ \E o \in StoreQuotes, ctxDone \in BOOLEAN, up \in BOOLEAN :
         LET w == Set(cache, o, up /\ ~ctxDone, now)
         IN  /\ got' = [op |-> "put", arg |-> o, ctxDone |-> ctxDone,
                        err |-> w.err]
             /\ cache' = w.cache
             /\ hist' = NoteWrites(hist, <<o>>, 1,
                                   IF w.err THEN {1} ELSE {}, now)
    /\ calls' = calls + 1
    /\ UNCHANGED <<params, now, call, ret, stream, committed, pc, msg,
                   cancelled, readerClosed, minted>>

\* RedisCache.Get called directly
CacheGet ==
    /\ calls < MaxStoreCalls
    /\ \E tr \in SysTriples, ctxDone \in BOOLEAN, up \in BOOLEAN :
         LET r == Get(cache, tr[1], tr[2], tr[3], up /\ ~ctxDone, now)
         IN  got' = [op |-> "get", triple |-> tr, ctxDone |-> ctxDone,
                     err |-> r.err, odds |-> r.odds]
    /\ calls' = calls + 1
    /\ UNCHANGED <<params, now, call, ret, cache, stream, committed,
                   pc, msg, cancelled, readerClosed, minted, hist>>

\* RedisCache.SetBatch called directly
CacheSetBatch ==
    /\ calls < MaxStoreCalls
    /\ \E b \in StoreBatches, ctxDone \in BOOLEAN :
       \E failing \in SUBSET (1..Len(Queued(b))) :
         /\ ctxDone => failing = 1..Len(Queued(b))
         /\ LET w == SetBatch(cache, b, failing, now)
            IN  /\ got' = [op |-> "putBatch", arg |-> b, ctxDone |-> ctxDone,
                           failing |-> failing, err |-> w.err]
                /\ cache' = w.cache
                /\ hist' = NoteWrites(hist, Queued(b), 1, failing, now)
    /\ calls' = calls + 1
    /\ UNCHANGED <<params, now, call, ret, stream, committed, pc, msg,
                   cancelled, readerClosed, minted>>

\* RedisCache.GetByEvent called directly
CacheGetByEvent ==
    /\ calls < MaxStoreCalls
    /\ \E eventID \in SysEvents, ctxDone \in BOOLEAN, scanUp \in BOOLEAN :
       \E failing \in SUBSET Scanned(cache, eventID, now) :
         /\ ctxDone => ~scanUp
         /\ LET r == GetByEvent(cache, eventID, scanUp, failing, now)
            IN  got' = [op |-> "getByEvent", event |-> eventID,
                        ctxDone |-> ctxDone,
                        storeFailed |-> (~scanUp \/ failing # {}),
                        odds |-> r.odds, err |-> r.err]
    /\ calls' = calls + 1
    /\ UNCHANGED <<params, now, call, ret, cache, stream, committed,
                   pc, msg, cancelled, readerClosed, minted, hist>>

\* RedisCache.Ping: the error of the PING round trip
Ping(up) == [err |-> ~up]

\* RedisCache.Ping called directly
CachePing ==
    /\ calls < MaxStoreCalls
    /\ \E ctxDone \in BOOLEAN, up \in BOOLEAN :
         got' = [op |-> "health", ctxDone |-> ctxDone,
                 err |-> Ping(up /\ ~ctxDone).err]
    /\ calls' = calls + 1
    /\ UNCHANGED <<params, now, call, ret, cache, stream, committed,
                   pc, msg, cancelled, readerClosed, minted, hist>>

StoreNext ==
    \/ Corrupt
    \/ CacheSet
    \/ CacheGet
    \/ CacheSetBatch
    \/ CacheGetByEvent
    \/ CachePing
    \/ Lookup

StoreSpec == Init /\ [][StoreNext]_vars

-----------------------------------------------------------------------------
(* The Pricing Engine called on its own: the parameters, the clock and the *)
(* argument are drawn at the start, and the one call is then made.         *)

PriceInit ==
    /\ params \in ParamSet
    /\ now \in 0..MaxTime
    /\ \/ \E n \in PriceInputs : call = [op |-> "Optimize", arg |-> n]
       \/ \E ns \in SeqsUpTo(BatchItems, MaxBatch) :
              call = [op |-> "BatchOptimize", arg |-> ns]
    /\ ret = Nil
    /\ stream = <<>>
    /\ SysIdle

OptimizeCall ==
    /\ call.op = "Optimize"
    /\ ret = Nil
    /\ \E id \in UUIDs : ret' = Optimize(params, call.arg, id, now)
    /\ UNCHANGED <<params, now, call>>
    /\ UNCHANGED <<stream, sysVars>>

BatchOptimizeCall ==
    /\ call.op = "BatchOptimize"
    /\ ret = Nil
    /\ \E ids \in [1..Len(call.arg) -> UUIDs] :
           ret' = [err |-> FALSE, odds |-> BatchOptimize(params, call.arg, ids, now)]
    /\ UNCHANGED <<params, now, call>>
    /\ UNCHANGED <<stream, sysVars>>

PriceNext == OptimizeCall \/ BatchOptimizeCall

PriceSpec == PriceInit /\ [][PriceNext]_vars

-----------------------------------------------------------------------------
(* The Pricing Engine called by several goroutines at once on one          *)
(* *Optimizer.  Each caller's call is a frame: the item it is pricing, the  *)
(* point it has reached in Optimize, and its local variables.  A step is   *)
(* one stretch of Optimize between two reads of o.params.                  *)

Callers == 1..NumCallers

\* a valid item, an item with back price 0.5, and another valid one
ConcBatch ==
    <<NormalizedOddsOf(StrE1, StrMkt, StrSelA, "football", 25000, 26000, <<2500, 2500>>, 0),
      NormalizedOddsOf(StrE1, StrMkt, StrSelB, "tennis", 5000, 26000, <<2500, 2500>>, 0),
      NormalizedOddsOf(StrE1, StrMkt, StrSelB, "darts", 500000, 0, <<0, 0>>, 0)>>

\* the calls made: Optimize on each item, and BatchOptimize on the three
ConcCalls ==
    {[op |-> "Optimize", arg |-> <<ConcBatch[i]>>] : i \in 1..Len(ConcBatch)}
      \cup {[op |-> "BatchOptimize", arg |-> ConcBatch]}

\* a call on entry: at its first item, nothing computed yet
Frame(c0) ==
    [op |-> c0.op, arg |-> c0.arg, i |-> 1, at |-> "margin",
     margin |-> 0, spread |-> 0, px |-> Nil, out |-> <<>>]

ConcInit ==
    /\ params = DefaultParams
    /\ now = 0
    /\ call \in [Callers -> {Frame(c0) : c0 \in ConcCalls}]
    /\ ret = [c \in Callers |-> Nil]
    /\ stream = <<>>
    /\ SysIdle

\* the frame once item i is dealt with: BatchOptimize goes on to the next
\* item; after the last one the call is over
NextItem(f, out) ==
    IF f.i < Len(f.arg)
    THEN [f EXCEPT !.i = @ + 1, !.at = "margin", !.out = out]
    ELSE [f EXCEPT !.at = "done", !.out = out]

\* what the call returns: Optimize its quote or its error, BatchOptimize
\* the quotes it collected
Result(f) ==
    IF f.op = "Optimize"
    THEN IF f.out = <<>> THEN [err |-> TRUE, odds |-> Nil]
         ELSE [err |-> FALSE, odds |-> f.out[1]]
    ELSE [err |-> FALSE, odds |-> f.out]

\* ret once caller c's frame has become g
Returning(c, g) ==
    IF g.at = "done" THEN [ret EXCEPT ![c] = Result(g)] ELSE ret

\* calculateTargetMargin leaving the margin it computed in o.params.MinMargin
StepMarginScratch(c) ==
    LET f == call[c]
        n == f.arg[f.i]
    IN  /\ f.at = "margin"
        /\ IF InvalidBackPrice(n)
           THEN /\ call' = [call EXCEPT ![c] = NextItem(f, f.out)]
                /\ ret' = Returning(c, NextItem(f, f.out))
                /\ UNCHANGED params
           ELSE /\ call' = [call EXCEPT ![c] =
                               [f EXCEPT !.margin = calculateTargetMargin(params, n),
                                         !.at = "spread"]]
                /\ params' = [params EXCEPT
                                 !.MinMargin = calculateTargetMargin(params, n)]
                /\ UNCHANGED ret
        /\ UNCHANGED <<now, stream, sysVars>>

\* Optimize up to the margin: the validation of the back price, then
\* calculateTargetMargin, which reads o.params.MinMargin and MaxMargin
StepMargin(c) ==
    LET f == call[c]
        n == f.arg[f.i]
    IN  /\ f.at = "margin"
        /\ IF InvalidBackPrice(n)
           THEN /\ call' = [call EXCEPT ![c] = NextItem(f, f.out)]
                /\ ret' = Returning(c, NextItem(f, f.out))
           ELSE /\ call' = [call EXCEPT ![c] =
                               [f EXCEPT !.margin = calculateTargetMargin(params, n),
                                         !.at = "spread"]]
                /\ UNCHANGED ret
        /\ UNCHANGED <<params, now, stream, sysVars>>

\* Optimize from the probabilities to the minimum-spread adjustment, which
\* reads o.params.MinSpread
StepSpread(c) ==
    LET f == call[c]
        n == f.arg[f.i]
        impliedProbBack == calculateImpliedProbability(n.BackPrice)
        optimizedBack == probabilityToOdds(impliedProbBack + Div(f.margin, 2 * One))
        optimizedLay == probabilityToOdds(impliedProbBack - Div(f.margin, 2 * One))
    IN  /\ f.at = "spread"
        /\ call' = [call EXCEPT ![c] =
                      [f EXCEPT !.spread = optimizedBack - optimizedLay,
                                !.px = EnsureMinSpread(params, optimizedBack, optimizedLay),
                                !.at = "confidence"]]
        /\ UNCHANGED <<params, now, ret, stream, sysVars>>

\* Optimize to its end: calculateConfidence, which reads
\* o.params.TargetConfidence and the clock, then the record with a fresh uuid
StepConfidence(c) ==
    LET f == call[c]
        n == f.arg[f.i]
        confidence == calculateConfidence(params, n, f.spread, now)
        odds == OptimizedOdds(n, f.px, f.margin, confidence, minted + 1, now)
        g == NextItem(f, Append(f.out, odds))
    IN  /\ f.at = "confidence"
        /\ minted' = minted + 1
        /\ call' = [call EXCEPT ![c] = g]
        /\ ret' = Returning(c, g)
        /\ UNCHANGED <<params, now, stream, cache, committed, pc, msg,
                       cancelled, readerClosed, calls, got, hist>>

ConcNext ==
    \/ Tick
    \/ \E c \in Callers : StepMargin(c) \/ StepSpread(c) \/ StepConfidence(c)

ConcSpec == ConcInit /\ [][ConcNext]_vars

-----------------------------------------------------------------------------
(* Claims about the Pricing Engine, checked under PriceSpec *)

\* an Optimize call has returned / has returned a quote
Returned == call.op = "Optimize" /\ ret # Nil
Priced == Returned /\ ~ret.err
BatchReturned == call.op = "BatchOptimize" /\ ret # Nil

ValidParams(p) == 0 < p.MinMargin /\ p.MinMargin < p.MaxMargin

\* C3: for every input with back_price > 1 and parameters with
\* 0 < min_margin < max_margin, min_margin <= margin <= max_margin, whatever
\* the liquidity and the sport.
C3_MarginWithinBounds ==
    (Returned /\ call.arg.BackPrice > One /\ ValidParams(params)) =>
        /\ ~ret.err
        /\ params.MinMargin <= ret.odds.Margin
        /\ ret.odds.Margin <= params.MaxMargin

\* a niche sport with negative liquidity, priced at exactly max_margin
C3_Witness ==
    /\ Priced
    /\ call.arg.Sport = "darts"
    /\ call.arg.BackSize + call.arg.LaySize < 0
    /\ ret.odds.Margin = params.MaxMargin

\* C4: for every produced quote, optimized_back - optimized_lay >= min_spread.
C4_SpreadAtLeastMinSpread ==
    Priced => ret.odds.OptimizedBack - ret.odds.OptimizedLay >= params.MinSpread

C6_FailsIffBackPriceAtMostOne ==
    Returned =>
        /\ ret.err <=> call.arg.BackPrice <= One
        /\ ret.err => ret.odds = Nil
        /\ ~ret.err => ret.odds # Nil

\* back price exactly 1 is rejected; the lay price is absent
C6_Witness ==
    /\ Returned
    /\ call.arg.BackPrice = One
    /\ call.arg.LayPrice = 0
    /\ ret.err

\* C7: every produced quote carries the input's prices, sizes, observation
\* time and identity fields.
C7_InputCarriedThrough ==
    Priced =>
        /\ ret.odds.OriginalBack = call.arg.BackPrice
        /\ ret.odds.OriginalLay = call.arg.LayPrice
        /\ ret.odds.BackSize = call.arg.BackSize
        /\ ret.odds.LaySize = call.arg.LaySize
        /\ ret.odds.Timestamp = call.arg.Timestamp
        /\ ret.odds.EventID = call.arg.EventID
        /\ ret.odds.EventName = call.arg.EventName
        /\ ret.odds.Sport = call.arg.Sport
        /\ ret.odds.Competition = call.arg.Competition
        /\ ret.odds.Market = call.arg.Market
        /\ ret.odds.Selection = call.arg.Selection

\* a quote whose lay price is absent and whose optimized prices differ from it
C7_Witness ==
    /\ Priced
    /\ call.arg.LayPrice = 0
    /\ ret.odds.OptimizedLay # 0
    /\ ret.odds.OptimizedBack # call.arg.BackPrice

\* the items of a batch whose back price is above 1, in input order
ValidItems(ns) == SelectSeq(ns, LAMBDA n : n.BackPrice > One)

\* C8: priceBatch never fails; it returns one output per input with
\* back_price > 1, in input order, with the input's identity.
C8_BatchIsValidSubsequence ==
    BatchReturned =>
        /\ ~ret.err
        /\ Len(ret.odds) = Len(ValidItems(call.arg))
        /\ \A i \in 1..Len(ret.odds) :
              /\ ret.odds[i].EventID = ValidItems(call.arg)[i].EventID
              /\ ret.odds[i].Market = ValidItems(call.arg)[i].Market
              /\ ret.odds[i].Selection = ValidItems(call.arg)[i].Selection
              /\ ret.odds[i].OriginalBack = ValidItems(call.arg)[i].BackPrice
              /\ ret.odds[i].Sport = ValidItems(call.arg)[i].Sport

\* three items, the middle one invalid, two different outputs
C8_Witness ==
    /\ BatchReturned
    /\ Len(call.arg) = 3
    /\ call.arg[1].BackPrice > One
    /\ call.arg[2].BackPrice <= One
    /\ call.arg[3].BackPrice > One
    /\ Len(ret.odds) = 2
    /\ ret.odds[1].Selection # ret.odds[2].Selection

\* the economic decisions of a quote, with the prices and sizes it carries
\* over from its input
Decisions(o) ==
    <<o.Margin, o.OptimizedBack, o.OptimizedLay, o.OriginalBack,
      o.OriginalLay, o.BackSize, o.LaySize>>

\* back_size + lay_size
Liquidity(n) == n.BackSize + n.LaySize

\* the input of the call with other sizes
WithSizes(sz) == [call.arg EXCEPT !.BackSize = sz[1], !.LaySize = sz[2]]

\* C27: the margin does not decrease as the total liquidity decreases: an
\* input that differs from the priced one only in its sizes and has no more
\* liquidity gets a margin at least as large.
C27_MarginMonotoneInLiquidity ==
    Priced =>
        \A sz \in SizePairs :
            Liquidity(WithSizes(sz)) <= Liquidity(call.arg) =>
                Optimize(params, WithSizes(sz), "u1", now).odds.Margin
                    >= ret.odds.Margin

\* below the threshold, less liquidity gives a strictly larger margin and
\* more liquidity a strictly smaller one
C27_Witness ==
    /\ Priced
    /\ 0 < Liquidity(call.arg)
    /\ Liquidity(call.arg) < LiquidityThreshold
    /\ \E sz \in SizePairs :
          /\ Liquidity(WithSizes(sz)) < Liquidity(call.arg)
          /\ Optimize(params, WithSizes(sz), "u1", now).odds.Margin > ret.odds.Margin
    /\ \E sz \in SizePairs :
          /\ Liquidity(WithSizes(sz)) > Liquidity(call.arg)
          /\ Optimize(params, WithSizes(sz), "u1", now).odds.Margin < ret.odds.Margin

\* the input of the call observed at another time
WithTimestamp(ts) == [call.arg EXCEPT !.Timestamp = ts]

\* C28: the confidence does not increase as the age of observed_at
\* increases: an input that differs from the priced one only in an earlier
\* observed_at, priced at the same instant, gets a confidence no larger.
C28_ConfidenceMonotoneInAge ==
    Priced =>
        \A ts \in Timestamps :
            ts <= call.arg.Timestamp =>
                Optimize(params, WithTimestamp(ts), "u1", now).odds.Confidence
                    <= ret.odds.Confidence

\* an observation less than an hour old, and an older one of the same quote
\* with a strictly smaller confidence
C28_Witness ==
    /\ Priced
    /\ call.arg.Timestamp <= now
    /\ (now - call.arg.Timestamp) * TickMinutes < 60
    /\ ret.odds.Confidence < FUnit
    /\ \E ts \in Timestamps :
          /\ ts < call.arg.Timestamp
          /\ Optimize(params, WithTimestamp(ts), "u1", now).odds.Confidence
                < ret.odds.Confidence

\* x held to [lo, hi]
Clamp(x, lo, hi) == IF x < lo THEN lo ELSE IF x > hi THEN hi ELSE x

\* ten times the multiplier of a sport: 0.8, 1.0, 1.2
MultTenths(sport) ==
    IF sport \in {"football", "soccer"} THEN 8
    ELSE IF sport = "tennis" THEN 10 ELSE 12

\* (min_margin + uplift) * mult(sport) in units of 1/(10 * LiquidityThreshold)
\* of a margin unit, computed in whole numbers
UnclampedMargin(p, n) ==
    LET uplift == IF Liquidity(n) < LiquidityThreshold
                  THEN (p.MaxMargin - p.MinMargin) * (LiquidityThreshold - Liquidity(n))
                  ELSE 0
    IN  (p.MinMargin * LiquidityThreshold + uplift) * MultTenths(n.Sport)

\* C29: the target margin is clamp((min_margin + uplift) * mult(sport),
\* min_margin, max_margin) with uplift = (max_margin - min_margin) *
\* (1 - liquidity/10000) below 10000 and 0 otherwise, and mult 0.8 for
\* football and soccer, 1.0 for tennis, 1.2 otherwise; at liquidity >= 10000
\* football, soccer and tennis yield exactly min_margin.
C29_MarginFormula ==
    Priced =>
        /\ ret.odds.Margin * (10 * LiquidityThreshold)
              = Clamp(UnclampedMargin(params, call.arg),
                      params.MinMargin * (10 * LiquidityThreshold),
                      params.MaxMargin * (10 * LiquidityThreshold))
        /\ (/\ Liquidity(call.arg) >= LiquidityThreshold
            /\ call.arg.Sport \in {"football", "soccer", "tennis"}) =>
               ret.odds.Margin = params.MinMargin

\* football above the threshold: 0.8 * min_margin, clamped up to min_margin
C29_Witness ==
    /\ Priced
    /\ call.arg.Sport = "football"
    /\ Liquidity(call.arg) >= LiquidityThreshold
    /\ UnclampedMargin(params, call.arg)
          < params.MinMargin * (10 * LiquidityThreshold)
    /\ ret.odds.Margin = params.MinMargin

\* the spread Optimize hands to calculateConfidence: optimized back minus
\* optimized lay, before the minimum-spread adjustment
RawSpread(p, normalized) ==
    LET impliedProbBack == calculateImpliedProbability(normalized.BackPrice)
        targetMargin == calculateTargetMargin(p, normalized)
        optimizedBack == probabilityToOdds(impliedProbBack + Div(targetMargin, 2 * One))
        optimizedLay == probabilityToOdds(impliedProbBack - Div(targetMargin, 2 * One))
    IN  optimizedBack - optimizedLay

\* C30: on every input price() accepts, the liquidity factor lies in
\* [0.7, 1.0], the spread factor in [0.8, 1.0] and the freshness factor in
\* [0.9, 1.0], and the returned confidence does not exceed
\* target_confidence.
C30_FactorsBounded ==
    Priced =>
        /\ LiquidityFactor(call.arg) \in 700..FUnit
        /\ SpreadFactor(call.arg, RawSpread(params, call.arg)) \in 800..FUnit
        /\ FreshnessFactor(call.arg, now) \in 900..FUnit
        /\ ret.odds.Confidence <= params.TargetConfidence

\* what a call returns when no other call runs beside it
Alone(f) ==
    IF f.op = "Optimize"
    THEN Optimize(DefaultParams, f.arg[1], 0, 0)
    ELSE [err |-> FALSE,
          odds |-> BatchOptimize(DefaultParams, f.arg, [i \in 1..Len(f.arg) |-> 0], 0)]

\* C26: the Pricing Engine is safe under concurrency: however the calls of
\* several callers on one engine interleave, each returns the margin and the
\* optimized prices it returns when run alone, and the parameters stay as
\* constructed.  Checked under ConcSpec.
C26_ConcurrentCallsAsAlone ==
    /\ params = DefaultParams
    /\ \A c \in Callers :
          ret[c] # Nil =>
              /\ ret[c].err = Alone(call[c]).err
              /\ (call[c].op = "Optimize" /\ ~ret[c].err) =>
                     Decisions(ret[c].odds) = Decisions(Alone(call[c]).odds)
              /\ (call[c].op = "BatchOptimize") =>
                     /\ Len(ret[c].odds) = Len(Alone(call[c]).odds)
                     /\ \A i \in 1..Len(ret[c].odds) :
                           Decisions(ret[c].odds[i]) = Decisions(Alone(call[c]).odds[i])

\* one caller's BatchOptimize has returned its two quotes while another
\* caller's Optimize, on another sport, is between its reads of the parameters
C26_Witness ==
    \E c, d \in Callers :
        /\ ret[c] # Nil
        /\ call[c].op = "BatchOptimize"
        /\ Len(ret[c].odds) = 2
        /\ ret[d] = Nil
        /\ call[d].op = "Optimize"
        /\ call[d].at = "confidence"
        /\ call[d].margin # ret[c].odds[1].Margin

\* C24: pricing is deterministic in its economic decisions: a second call on
\* the same input with the same parameters, at any time and with any minted
\* id, fails when the first failed and otherwise yields the same margin,
\* optimized back and lay, original prices and sizes.
C24_PricingIsDeterministic ==
    Returned =>
        \A t \in 0..MaxTime, id \in UUIDs :
            LET again == Optimize(params, call.arg, id, t)
            IN  /\ again.err = ret.err
                /\ ~ret.err => Decisions(again.odds) = Decisions(ret.odds)

\* a second call at another time whose id, computed_at and confidence all
\* differ from the first call's
C24_Witness ==
    /\ Priced
    /\ \E t \in 0..MaxTime, id \in UUIDs :
          LET again == Optimize(params, call.arg, id, t)
          IN  /\ again.odds.ID # ret.odds.ID
              /\ again.odds.OptimizedAt # ret.odds.OptimizedAt
              /\ again.odds.Confidence # ret.odds.Confidence

-----------------------------------------------------------------------------
(* Claims about the Ingestion Loop, checked under Spec *)

\* C1: a commit is issued for a message only after it was decoded, its batch
\* was priced and the batch-put for it returned without error; no commit
\* precedes, or happens without, a successful batch-put for the message.
C1_CommitOnlyAfterPut ==
    /\ hist.commitIssued \subseteq (hist.decoded \cap hist.putOk)
    /\ pc = "commit" => msg \in (hist.decoded \cap hist.putOk)

\* one message failed and was passed over, another with a non-empty batch
\* was cached and then committed
C1_Witness ==
    /\ hist.failed # {}
    /\ hist.failed \cap hist.commitIssued = {}
    /\ \E o \in hist.commitIssued :
          /\ Len(UnmarshalMsg(stream[o + 1]).OddsData) > 0
          /\ committed = o + 1

\* C2: a message whose decoding, pricing or caching failed is never marked
\* consumed: no later commit covers its offset.
C2_FailedNeverCovered ==
    \A o \in hist.failed : committed <= o

\* C20: once the context is cancelled the Ingestion Loop eventually reaches
\* Stopped, from wherever it is; it returns no error; and once stopped it
\* stays stopped and pulls no further message.  Checked under LiveSpec.
C20_CancelStopsLoop ==
    /\ cancelled ~> (pc = "stopped")
    /\ [](pc # "failed")
    /\ [][pc = "stopped" => (pc' = "stopped" /\ stream' = stream /\ msg' = msg)]_vars

\* stopped after the cancellation, with a pulled batch whose caching the
\* cancelled context made fail
C20_Witness ==
    /\ pc = "stopped"
    /\ cancelled
    /\ Len(stream) > 0
    /\ hist.failed # {}
    /\ hist.decoded # {}

\* C21: whenever the Ingestion Loop has stopped because of the cancellation,
\* the loop has closed the reader before returning.
C21_StoppedMeansClosed ==
    pc = "stopped" => readerClosed

\* C22: once the stream is at its end, so that every later pull fails with
\* an error that is not the cancellation, the Ingestion Loop eventually
\* reaches Stopped unless the cancellation comes first.  Checked under
\* DrainSpec.
C22_ExhaustedStreamStops ==
    (Len(stream) = MaxMsgs) ~> (pc = "stopped" \/ cancelled)

\* a pull has returned without a message and without ending Start on the
\* cancellation
PullFailedStep ==
    pc = "fetch" /\ pc' \notin {"fetch", "stopped"} /\ stream' = stream

\* C23: a pull error leaves the Ingestion Loop running: the iteration prices
\* nothing, writes nothing to the cache and acknowledges nothing, the loop
\* goes back to the select, and from there, unless cancelled, to the next
\* pull, however many pulls have failed in a row.
C23_PullErrorKeepsRunning ==
    /\ [][PullFailedStep =>
            /\ pc' = "select"
            /\ UNCHANGED <<cache, committed, minted, msg, readerClosed>>
            /\ hist' = [hist EXCEPT !.fetchErrs = hist'.fetchErrs]]_vars
    /\ [][(pc = "select" /\ ~cancelled /\ pc' # pc) => pc' = "fetch"]_vars
    /\ [](pc # "failed")

\* the loop is at the pull again after MaxFetchErrs failed pulls in a row,
\* the second message still to come
C23_Witness ==
    /\ pc = "fetch"
    /\ ~cancelled
    /\ hist.fetchErrs = MaxFetchErrs
    /\ Len(stream) = 1

\* the keyspace one processing of a message body leaves behind, starting
\* from an empty one
ProcessedOnce(body) ==
    LET normalizedOdds == UnmarshalMsg(body).OddsData
        ids == [i \in 1..Len(normalizedOdds) |-> i]
        optimizedOdds == BatchOptimize(params, normalizedOdds, ids, 0)
    IN  SetBatch([k \in AllKeys |-> Nil], optimizedOdds, {}, 0).cache

\* the same message body was delivered twice and cached twice
ProcessedTwice ==
    /\ Len(stream) = 2
    /\ stream[1] = stream[2]
    /\ hist.putOk = {0, 1}

\* C25: duplicate delivery is safe: after the same message was processed
\* twice, the keys written are those one processing writes, no others
\* exist, and every key present holds a quote with the margin and optimized
\* prices one processing gives it, as written by the latest processing.
C25_DuplicateIsSafe ==
    ProcessedTwice =>
        LET once == ProcessedOnce(stream[1])
        IN  \A k \in AllKeys :
                /\ (hist.lastWriteAt[k] >= 0) <=> (once[k] # Nil)
                /\ cache[k] # Nil =>
                      /\ once[k] # Nil
                      /\ Decisions(Unmarshal(cache[k].data).odds)
                            = Decisions(Unmarshal(once[k].data).odds)
                      /\ Unmarshal(cache[k].data).odds.OptimizedAt
                            = hist.lastWriteAt[k]

\* a batch processed a second time at a later tick, its keys still present
C25_Witness ==
    /\ ProcessedTwice
    /\ hist.overwritten # {}
    /\ \E k \in AllKeys :
          /\ cache[k] # Nil
          /\ hist.lastWriteAt[k] > 0
          /\ cache[k].exp = hist.lastWriteAt[k] + TTL

-----------------------------------------------------------------------------
(* Claims about the Cache Store, checked under ApiSpec *)

\* a step in which GetOptimizedOdds returns
LookupStep == calls' = calls + 1 /\ got'.op = "lookup"

\* a step in which GetOptimizedOddsByEvent returns
LookupByEventStep == calls' = calls + 1 /\ got'.op = "lookupByEvent"

\* C9: after successful puts only, a get that reaches the store before the
\* entry's time-to-live elapses returns the quote most recently written for
\* the requested (event, market, selection), equal on every field.
C9_LastWriteWins ==
    [][(/\ LookupStep
        /\ got'.cacheErr # "redis"
        /\ ~hist.writeFailed
        /\ hist.lastWritten[got'.triple] # Nil
        /\ now < hist.lastWriteAt[Key(got'.triple[1], got'.triple[2],
                                      got'.triple[3])] + TTL)
       => (/\ got'.cacheErr = "none"
           /\ got'.odds = hist.lastWritten[got'.triple])]_vars

\* C10: every entry is stored with the one configured time-to-live, counted
\* from the most recent write of its key; a get that reaches the store once
\* that time has elapsed returns not found; get and getByEvent leave the
\* cache, expiries included, as it was.
C10_TTLFromLastWrite ==
    [][/\ \A k \in AllKeys :
            cache'[k] # Nil => cache'[k].exp = hist'.lastWriteAt[k] + TTL
       /\ (/\ LookupStep
           /\ got'.cacheErr # "redis"
           /\ hist.lastWriteAt[Key(got'.triple[1], got'.triple[2],
                                   got'.triple[3])] + TTL <= now)
          => got'.cacheErr = "notfound"
       /\ (LookupStep \/ LookupByEventStep) => cache' = cache]_vars

\* a key written twice, the second time after the clock had advanced, is
\* looked up once the time-to-live since that second write has elapsed,
\* and is not found
C10_Witness ==
    /\ got.op = "lookup"
    /\ got.cacheErr = "notfound"
    /\ got.triple \in hist.overwritten
    /\ hist.lastWriteAt[Key(got.triple[1], got.triple[2], got.triple[3])] > 0
    /\ hist.lastWriteAt[Key(got.triple[1], got.triple[2], got.triple[3])] + TTL <= now

\* C13: whenever the store fails during lookupByEvent, in the key scan or in
\* the fetch of a scanned key, the caller receives an error, never a list.
C13_StoreFailureSurfaced ==
    [][(LookupByEventStep /\ got'.storeFailed) => got'.err]_vars

-----------------------------------------------------------------------------
(* Claims about the Cache Store called on its own, checked under StoreSpec *)

\* a step in which the named Cache Store operation returns
StoreStep(op) == calls' = calls + 1 /\ got'.op = op

\* the key of a requested triple
KeyOf(tr) == Key(tr[1], tr[2], tr[3])

\* the entry under key k is live and its payload does not decode
Undecodable(c, k, t) ==
    StoreGet(c, k, t) # Nil /\ Unmarshal(StoreGet(c, k, t)).err

\* C11: a get that reaches the store and finds a payload that cannot be
\* decoded returns the same NotFound outcome as for an absent key, not a
\* distinct error.
C11_CorruptionIsNotFound ==
    [][(/\ StoreStep("get")
        /\ got'.err # "redis"
        /\ Undecodable(cache, KeyOf(got'.triple), now))
       => got'.err = "notfound"]_vars

\* C12: while the store answers, getByEvent returns without error exactly
\* the decodable entries stored for the event, whatever undecodable entries
\* lie among them, and an empty list for an event with no entries.
C12_GetByEventSkipsCorrupt ==
    [][(StoreStep("getByEvent") /\ ~got'.storeFailed)
       => (/\ ~got'.err
           /\ got'.odds =
                {Unmarshal(StoreGet(cache, k, now)).odds :
                    k \in {j \in Scanned(cache, got'.event, now) :
                              ~Undecodable(cache, j, now)}})]_vars

\* one decodable and one undecodable entry of the event: one quote, no error
C12_Witness ==
    /\ got.op = "getByEvent"
    /\ ~got.storeFailed
    /\ ~got.err
    /\ Cardinality(got.odds) = 1
    /\ \E k \in Scanned(cache, got.event, now) : Undecodable(cache, k, now)
    /\ \E k \in Scanned(cache, got.event, now) : ~Undecodable(cache, k, now)

\* C14: lookup returns either a cached quote with no error or NotFound with
\* no quote; a transport error, an undecodable payload and an absent key
\* all yield that same NotFound.
C14_LookupQuoteOrNotFound ==
    [][LookupStep =>
         IF got'.cacheErr = "none"
         THEN /\ ~got'.err
              /\ got'.odds # Nil
              /\ got'.odds = Unmarshal(StoreGet(cache, KeyOf(got'.triple), now)).odds
         ELSE /\ got'.err
              /\ got'.odds = Nil
              /\ got'.errKind = "notfound"]_vars

\* a lookup that found an undecodable payload and reported not found
C14_Witness ==
    /\ got.op = "lookup"
    /\ got.cacheErr = "unmarshal"
    /\ got.err
    /\ got.errKind = "notfound"
    /\ got.odds = Nil

\* the indices of the items of a batch that serialize and belong under key k
WritersOf(b, k) ==
    {i \in 1..Len(b) : Serializable(b[i]) /\ KeyOf(Triple(b[i])) = k}

\* the largest member of a non-empty set of indices
MaxOf(S) == CHOOSE i \in S : \A j \in S : j <= i

\* C17: when some items of a batch cannot be serialized and the store round
\* trip succeeds, putBatch reports success and exactly the serializable
\* items are written, each under its own key with the configured
\* time-to-live; every other key is left as it was.
C17_BatchSkipsUnserializable ==
    [][(StoreStep("putBatch") /\ ~got'.ctxDone /\ got'.failing = {})
       => (/\ ~got'.err
           /\ \A k \in AllKeys :
                IF WritersOf(got'.arg, k) # {}
                THEN cache'[k] =
                       [data |-> Marshal(got'.arg[MaxOf(WritersOf(got'.arg, k))]),
                        exp |-> now + TTL]
                ELSE cache'[k] = cache[k])]_vars

\* a batch of one serializable and one unserializable item: success, the
\* first is stored and the second is not
C17_Witness ==
    /\ got.op = "putBatch"
    /\ ~got.err
    /\ got.arg = <<QuoteA, QuoteBNaN>>
    /\ cache[KeyOf(Triple(QuoteA))] = [data |-> Marshal(QuoteA), exp |-> now + TTL]
    /\ cache[KeyOf(Triple(QuoteBNaN))] = Nil

\* C18: putBatch on an empty or absent list returns success without a
\* store round trip and leaves every cache entry and its expiry unchanged.
C18_EmptyBatchIsNoOp ==
    [][(StoreStep("putBatch") /\ Len(got'.arg) = 0)
       => (~got'.err /\ cache' = cache /\ hist' = hist)]_vars

\* an empty batch put while a quote is cached
C18_Witness ==
    /\ got.op = "putBatch"
    /\ Len(got.arg) = 0
    /\ ~got.err
    /\ \E k \in AllKeys : cache[k] # Nil /\ cache[k].exp = hist.lastWriteAt[k] + TTL

\* whether the Cache Store operation recorded in g returned an error
Failed(g) == IF g.op = "get" THEN g.err # "none" ELSE g.err

\* C19: every Cache Store operation (put, get, putBatch, getByEvent, health)
\* called with an already cancelled context returns an error and leaves the
\* store unchanged, for every argument, an empty batch included.
C19_CancelledCallFails ==
    [][(/\ calls' = calls + 1
        /\ got'.op \in {"put", "get", "putBatch", "getByEvent", "health"}
        /\ got'.ctxDone)
       => (Failed(got') /\ cache' = cache)]_vars

-----------------------------------------------------------------------------
(* Further claims about the Read Orchestrator, checked under ApiSpec *)

\* a step in which submit or the batch-put of a priced batch returns
WriteStep ==
    \/ calls' = calls + 1 /\ got'.op \in {"submit", "submitBatch"}
    \/ pc = "process" /\ pc' # "process"

\* C15: lookup and lookupByEvent price nothing and leave every cache entry
\* and its expiry as they were; an entry is created, overwritten or re-timed
\* only by submit or by the batch-put of a priced batch, and removed only
\* when its time-to-live elapses.
C15_ReadsLeaveCacheAlone ==
    [][/\ (LookupStep \/ LookupByEventStep) =>
            (cache' = cache /\ minted' = minted /\ hist' = hist)
       /\ (\E k \in AllKeys : cache'[k] # Nil /\ cache'[k] # cache[k])
            => WriteStep
       /\ \A k \in AllKeys :
            (cache[k] # Nil /\ cache'[k] = Nil)
                => (now' = now + 1 /\ cache[k].exp <= now')]_vars

\* a lookup missed while another quote is cached: nothing was priced or
\* stored for the missing triple
C15_Witness ==
    /\ got.op = "lookup"
    /\ got.cacheErr = "notfound"
    /\ cache[KeyOf(got.triple)] = Nil
    /\ hist.lastWritten[got.triple] = Nil
    /\ \E k \in AllKeys : cache[k] # Nil

\* a step in which OptimizeOdds returns
SubmitStep == calls' = calls + 1 /\ got'.op = "submit"

\* C16: submit of a quote with back_price > 1 returns the freshly priced
\* quote without error, also when the cache write fails, and then the cache
\* is left as it was; with back_price <= 1 it returns an error and writes
\* nothing.
C16_SubmitReturnsPricedQuote ==
    [][SubmitStep =>
         IF got'.arg.BackPrice > One
         THEN /\ ~got'.err
              /\ got'.odds = Optimize(params, got'.arg, minted + 1, now).odds
              /\ IF got'.cacheErr
                 THEN cache' = cache
                 ELSE cache' = [cache EXCEPT
                                  ![KeyOf(Triple(got'.arg))] =
                                      [data |-> Marshal(got'.odds),
                                       exp |-> now + TTL]]
         ELSE /\ got'.err
              /\ got'.odds = Nil
              /\ cache' = cache]_vars

\* a submit whose cache write failed: the quote is returned, nothing stored
C16_Witness ==
    /\ got.op = "submit"
    /\ got.cacheErr
    /\ ~got.err
    /\ got.odds # Nil
    /\ got.odds.OriginalBack = got.arg.BackPrice
    /\ cache[KeyOf(Triple(got.arg))] = Nil

-----------------------------------------------------------------------------
(* Further claims about the Pricing Engine, checked under PriceSpec *)

\* the two prices Optimize computes from the probabilities, before the
\* minimum-spread adjustment
RawPrices(p, normalized) ==
    LET impliedProbBack == calculateImpliedProbability(normalized.BackPrice)
        targetMargin == calculateTargetMargin(p, normalized)
    IN  [back |-> probabilityToOdds(impliedProbBack + Div(targetMargin, 2 * One)),
         lay |-> probabilityToOdds(impliedProbBack - Div(targetMargin, 2 * One))]

\* C31: the spread floor is met exactly and symmetrically: when the
\* pre-floor spread is below min_spread the returned prices are min_spread
\* apart and their sum is the pre-floor sum; otherwise the prices are
\* returned as computed.
C31_SpreadFloorExact ==
    Priced =>
        LET raw == RawPrices(params, call.arg)
        IN  IF raw.back - raw.lay < params.MinSpread
            THEN /\ ret.odds.OptimizedBack - ret.odds.OptimizedLay = params.MinSpread
                 /\ ret.odds.OptimizedBack + ret.odds.OptimizedLay = raw.back + raw.lay
            ELSE /\ ret.odds.OptimizedBack = raw.back
                 /\ ret.odds.OptimizedLay = raw.lay

\* C32: for every input with back_price > 1, with min_spread > 0, the
\* returned optimized back and lay prices are both strictly positive and
\* the back price is above the lay price.
C32_PricesPositiveAndOrdered ==
    (Priced /\ params.MinSpread > 0) =>
        /\ ret.odds.OptimizedBack > 0
        /\ ret.odds.OptimizedLay > 0
        /\ ret.odds.OptimizedBack > ret.odds.OptimizedLay

-----------------------------------------------------------------------------
(* Further claims about the Cache Store, checked under ApiSpec *)

\* C33: a successful get returns a quote whose own event id, market and
\* selection are the requested ones, whatever characters the identifiers
\* hold, the ':' separator included.
C33_GetReturnsRequestedTriple ==
    [][(LookupStep /\ ~got'.err) => Triple(got'.odds) = got'.triple]_vars

\* C34: a successful getByEvent returns only quotes whose own event id is
\* the requested one, whatever characters the identifiers hold, the ':'
\* separator included.
C34_GetByEventReturnsOnlyThatEvent ==
    [][(LookupByEventStep /\ ~got'.err) =>
         \A q \in got'.odds : q.EventID = got'.event]_vars

-----------------------------------------------------------------------------
(* Further claims about the Pricing Engine, checked under PriceSpec *)

\* the input of the call with another lay price
WithLayPrice(l) == [call.arg EXCEPT !.LayPrice = l]

\* C35: the re-priced outputs do not depend on the lay price: an input that
\* differs from the priced one only in its lay price, priced at the same
\* instant, is accepted too and gets the same margin, optimized back and lay
\* prices and confidence; the two quotes differ only in original_lay, which
\* carries the lay price of the input.
C35_LayPriceNotUsed ==
    Priced =>
        \A l \in LayPrices :
            LET other == Optimize(params, WithLayPrice(l), ret.odds.ID, now)
            IN  /\ ~other.err
                /\ other.odds.OriginalLay = l
                /\ other.odds = [ret.odds EXCEPT !.OriginalLay = l]

\* an input with a lay price above 1 has been priced; the lay prices 0 and
\* 0.9 give quotes with other original_lay values
C35_Witness ==
    /\ Priced
    /\ call.arg.LayPrice > One
    /\ ret.odds.OriginalLay = call.arg.LayPrice
    /\ \E l \in LayPrices :
          /\ l # call.arg.LayPrice
          /\ Optimize(params, WithLayPrice(l), ret.odds.ID, now).odds # ret.odds

\* C36: re-pricing never offers better back odds than the market: for every
\* input with back_price > 1, optimized_back <= original_back, also after the
\* minimum spread has been enforced.
C36_BackNeverLengthened ==
    Priced => ret.odds.OptimizedBack <= ret.odds.OriginalBack

\* the two re-priced probabilities of Optimize: p + margin/2 and p - margin/2
OptimizedProbs(p, normalized) ==
    LET impliedProbBack == calculateImpliedProbability(normalized.BackPrice)
        targetMargin == calculateTargetMargin(p, normalized)
    IN  [back |-> impliedProbBack + Div(targetMargin, 2 * One),
         lay |-> impliedProbBack - Div(targetMargin, 2 * One)]

\* both re-priced probabilities lie strictly between 0 and 1
ProbsInside(p, normalized) ==
    LET pr == OptimizedProbs(p, normalized)
    IN  0 < pr.lay /\ pr.lay < One /\ 0 < pr.back /\ pr.back < One

\* C37: for every valid input whose two re-priced probabilities lie strictly
\* between 0 and 1, the pre-floor spread is negative, so the spread-floor
\* branch is taken and the returned spread equals min_spread.
C37_FloorAlwaysTaken ==
    (Priced /\ ProbsInside(params, call.arg)) =>
        /\ RawSpread(params, call.arg) < 0
        /\ RawSpread(params, call.arg) < params.MinSpread
        /\ ret.odds.OptimizedBack - ret.odds.OptimizedLay = params.MinSpread

-----------------------------------------------------------------------------
(* Further claims about the Ingestion Loop, checked under Spec *)

\* the body at offset o decodes
Decodable(o) == ~UnmarshalMsg(stream[o + 1]).err

\* the body at offset o decodes and its batch holds no item Optimize accepts
NoValidItem(o) ==
    /\ Decodable(o)
    /\ \A i \in 1..Len(UnmarshalMsg(stream[o + 1]).OddsData) :
           InvalidBackPrice(UnmarshalMsg(stream[o + 1]).OddsData[i])

\* processMessage has just returned for the message in hand
ProcessStep == pc = "process" /\ pc' # "process"

\* C38: a well-formed message whose batch is empty or holds only invalid
\* quotes is acknowledged without any cache entry being written; an
\* undecodable body causes no pricing and no cache call and is never
\* acknowledged: no commit is issued for it and no commit covers its offset.
C38_InvalidItemsAcknowledged ==
    /\ [][(ProcessStep /\ NoValidItem(msg)) =>
              (pc' = "commit" /\ cache' = cache)]_vars
    /\ [][(ProcessStep /\ ~Decodable(msg)) =>
              (pc' # "commit" /\ cache' = cache /\ minted' = minted)]_vars
    /\ [](\A o \in 0..(Len(stream) - 1) :
              ~Decodable(o) => (o \notin hist.commitIssued /\ committed <= o))

\* C39: when the batch-put of a message fails, so that the message is not
\* acknowledged, none of the batch's quotes has become visible: the failed
\* putBatch leaves every cache entry as it was.
C39_FailedPutBatchWritesNothing ==
    [][(ProcessStep /\ Decodable(msg) /\ pc' # "commit") => cache' = cache]_vars

\* CommitMessages has just returned an error: the group offset has not moved
CommitFailedStep == pc = "commit" /\ pc' # "commit" /\ committed' = committed

\* C40: a failed acknowledgement neither stops the Ingestion Loop nor undoes
\* the cache writes of the batch: after the commit error the loop is at the
\* select again with the cache as it was, from there, unless cancelled, it
\* goes to the next pull, which hands out a new offset; no message is
\* processed or committed a second time by the loop, and Start never returns
\* an error.
C40_CommitErrorKeepsRunning ==
    /\ [][CommitFailedStep =>
            /\ pc' = "select"
            /\ UNCHANGED <<cache, msg, stream, minted, readerClosed>>]_vars
    /\ [][(pc = "select" /\ ~cancelled /\ pc' # pc) => pc' = "fetch"]_vars
    /\ [][(pc = "fetch" /\ pc' = "process") =>
            (msg' > msg /\ msg' \notin hist.commitIssued)]_vars
    /\ [][pc = "commit" => msg \notin hist.commitIssued]_vars
    /\ [](pc # "failed")

\* the commit for offset 0 failed; the loop has pulled offset 1 and is
\* processing it, and a quote cached for offset 0 is still readable
C40_Witness ==
    /\ 0 \in hist.commitIssued
    /\ committed = 0
    /\ msg = 1
    /\ pc = "process"
    /\ ~cancelled
    /\ \E k \in AllKeys : StoreGet(cache, k, now) # Nil

====
